---- MODULE Spec2Model ----
(***************************************************************************)
(* Model of packages/utils/src/time.ts: the timestamp sources of the SDK.  *)
(*                                                                         *)
(* The module is evaluated once (ModuleLoad); afterwards the exported      *)
(* functions are called while the environment (wall clock, performance     *)
(* clock, global object, native performance object) keeps changing.        *)
(*                                                                         *)
(* JavaScript values are records: [tag, val] for millisecond values and    *)
(* [tag, whole, milli] for the results of "/ 1000" (seconds and the        *)
(* remaining thousandths).  All clocks count whole milliseconds.           *)
(***************************************************************************)
EXTENDS Integers

\* Bounds of the explored environment (clock readings are multiples of 500 ms).
MaxWall == 2
MaxNow == 1

WallReadings == {500 * t : t \in 0..MaxWall}
NowReadings == {500 * t : t \in 0..MaxNow}

\* ---- JavaScript values -------------------------------------------------
Undefined == [tag |-> "undefined", val |-> 0]
NaN == [tag |-> "NaN", val |-> 0]
Num(x) == [tag |-> "number", val |-> x]

\* JavaScript truthiness of a value: undefined, NaN and 0 are falsy.
Truthy(v) == v.tag = "number" /\ v.val # 0

\* a + b where b is a number: undefined + b and NaN + b are NaN.
Plus(a, b) == IF a.tag = "number" THEN Num(a.val + b) ELSE NaN

SecNaN == [tag |-> "NaN", whole |-> 0, milli |-> 0]
SecNone == [tag |-> "none", whole |-> 0, milli |-> 0]

\* v / 1000: the quotient in seconds, kept exactly as whole seconds plus thousandths.
DivBy1000(v) ==
  IF v.tag = "number"
  THEN [tag |-> "number", whole |-> v.val \div 1000, milli |-> v.val % 1000]
  ELSE SecNaN

\* The values a native performance.timeOrigin / timing.navigationStart may report.
NativeTimeOrigins == {Undefined, Num(0), Num(500)}
NavigationStarts == {Undefined, Num(0), Num(1000)}

VARIABLES
  isNode,                \* isNodeEnv()
  perfHooks,             \* what dynamicRequire(module, 'perf_hooks') gives
  globalPerf,            \* shape of getGlobalObject().performance
  nativeTimeOrigin,      \* timeOrigin reported by the native performance object (the one
                         \* object behind perf_hooks.performance and the global performance)
  navigationStart,       \* performance.timing.navigationStart of the native object
  wall,                  \* Date.now()
  perfNow,               \* native performance.now()
  pc,                    \* "load" before the module is evaluated, "ready" after
  platformPerformance,
  timestampSource,
  timestampInSeconds,
  timestampWithMs,
  usingPerformanceAPI,
  browserPerformanceTimeOrigin,
  prev,                  \* the call before the last one
  ret                    \* the last call of an exported function and its result

vars == <<isNode, perfHooks, globalPerf, nativeTimeOrigin, navigationStart, wall, perfNow,
          pc, platformPerformance, timestampSource, timestampInSeconds, timestampWithMs,
          usingPerformanceAPI, browserPerformanceTimeOrigin, prev, ret>>

envStatic == <<isNode, perfHooks, navigationStart>>
moduleState == <<pc, platformPerformance, timestampSource, timestampInSeconds, timestampWithMs,
                 usingPerformanceAPI, browserPerformanceTimeOrigin>>

\* ---- The objects the module sees ---------------------------------------

\* getGlobalObject().performance
GlobalPerformance(gp, nto, nav, n) ==
  [defined |-> gp # "absent", hasNow |-> gp = "full", timeOrigin |-> nto,
   navigationStart |-> nav, now |-> n]

\* A Performance reference held by the module: nothing, the native object itself
\* (its timeOrigin is read from the native object at each use), or the wrapper
\* object built by getBrowserPerformance (its timeOrigin is a stored field).
NoPerformance == [ref |-> "undefined", timeOrigin |-> Undefined]
NativePerformance == [ref |-> "native", timeOrigin |-> Undefined]
WrappedPerformance(origin) == [ref |-> "wrapper", timeOrigin |-> origin]

\* Variant: the wall-clock reading truncated to whole seconds.
DateNowSeconds_Truncating(w) ==
  [tag |-> "number", whole |-> w \div 1000, milli |-> 0]

\* dateTimestampSource.nowSeconds
DateNowSeconds(w) == DivBy1000(Num(w))

\* Variant: the native timeOrigin is used when the browser reports one.
getBrowserPerformance_TrustingNative(performance, w) ==
  IF ~performance.defined \/ ~performance.hasNow
  THEN NoPerformance
  ELSE IF Truthy(performance.timeOrigin)
       THEN WrappedPerformance(performance.timeOrigin)
       ELSE WrappedPerformance(Num(w - performance.now))

getBrowserPerformance(performance, w) ==
  IF ~performance.defined \/ ~performance.hasNow
  THEN NoPerformance
  ELSE WrappedPerformance(Num(w - performance.now))

getNodePerformance(ph) ==
  CASE ph = "throws" -> NoPerformance
    [] ph = "noPerformance" -> NoPerformance
    [] OTHER -> NativePerformance

\* Variant: the browser probe is a second chance when the server probe finds nothing.
PlatformPerformance_SecondChance(node, ph, performance, w) ==
  IF node /\ getNodePerformance(ph) # NoPerformance
  THEN getNodePerformance(ph)
  ELSE getBrowserPerformance(performance, w)

PlatformPerformance(node, ph, performance, w) ==
  IF node THEN getNodePerformance(ph) ELSE getBrowserPerformance(performance, w)

\* Variant: the performance source is bound without looking at platformPerformance.
TimestampSource_AlwaysPerformance(pp) == "performance"

\* let timestampSource = dateTimestampSource; if (platformPerformance !== undefined) ...
TimestampSource(pp) == IF pp.ref # "undefined" THEN "performance" ELSE "date"

\* platformPerformance.timeOrigin as read when nowSeconds runs
TimeOriginOf(pp, nto) == IF pp.ref = "native" THEN nto ELSE pp.timeOrigin

\* Variant: the elapsed time is left out of the composed formula.
PerformanceNowSeconds_OriginOnly(pp, nto, n) == DivBy1000(TimeOriginOf(pp, nto))

\* (platformPerformance.timeOrigin + platformPerformance.now()) / 1000
PerformanceNowSeconds(pp, nto, n) == DivBy1000(Plus(TimeOriginOf(pp, nto), n))

\* nowSeconds of the source a name is bound to
NowSeconds(src, pp, nto, w, n) ==
  IF src = "performance" THEN PerformanceNowSeconds(pp, nto, n) ELSE DateNowSeconds(w)

\* export const { nowSeconds: dateTimestampInSeconds } = dateTimestampSource
dateTimestampInSeconds == "date"

\* Variant: the flag is set for the wrapper object only.
UsingPerformanceAPI_WrapperOnly(pp) == pp.ref = "wrapper"

UsingPerformanceAPI(pp) == pp.ref # "undefined"

\* Variant: the navigationStart fallback is skipped.
BrowserPerformanceTimeOrigin_NoNavigationStart(performance, w) ==
  IF ~performance.defined THEN Undefined
  ELSE IF Truthy(performance.timeOrigin) THEN performance.timeOrigin
  ELSE Num(w)

BrowserPerformanceTimeOrigin(performance, w) ==
  IF ~performance.defined THEN Undefined
  ELSE IF Truthy(performance.timeOrigin) THEN performance.timeOrigin
  ELSE IF Truthy(performance.navigationStart) THEN performance.navigationStart
  ELSE Num(w)

\* ---- Initial state: an environment, the module not yet evaluated --------
Init ==
  /\ isNode \in BOOLEAN
  /\ perfHooks \in {"throws", "noPerformance", "performance"}
  /\ (~isNode => perfHooks = "throws")
  /\ globalPerf \in {"absent", "noNow", "full"}
  /\ nativeTimeOrigin \in NativeTimeOrigins
  /\ navigationStart \in NavigationStarts
  /\ wall \in WallReadings
  /\ perfNow \in NowReadings
  /\ pc = "load"
  /\ platformPerformance = NoPerformance
  /\ timestampSource = "date"
  /\ timestampInSeconds = "unbound"
  /\ timestampWithMs = "unbound"
  /\ usingPerformanceAPI = FALSE
  /\ browserPerformanceTimeOrigin = Undefined
  /\ prev = [fn |-> "none", value |-> SecNone]
  /\ ret = [fn |-> "none", value |-> SecNone]

\* ---- Evaluation of the module ------------------------------------------
ModuleLoad ==
  /\ pc = "load"
  /\ LET performance == GlobalPerformance(globalPerf, nativeTimeOrigin, navigationStart, perfNow)
         pp == PlatformPerformance(isNode, perfHooks, performance, wall)
         source == TimestampSource(pp)
     IN /\ platformPerformance' = pp
        /\ timestampSource' = source
        /\ timestampInSeconds' = source
        /\ timestampWithMs' = source
        /\ usingPerformanceAPI' = UsingPerformanceAPI(pp)
        /\ browserPerformanceTimeOrigin' = BrowserPerformanceTimeOrigin(performance, wall)
  /\ pc' = "ready"
  /\ UNCHANGED <<envStatic, globalPerf, nativeTimeOrigin, wall, perfNow, prev, ret>>

\* ---- Calls of the exported functions -----------------------------------
Call(name, src) ==
  /\ pc = "ready"
  /\ prev' = ret
  /\ ret' = [fn |-> name,
             value |-> NowSeconds(src, platformPerformance, nativeTimeOrigin, wall, perfNow)]
  /\ UNCHANGED <<envStatic, globalPerf, nativeTimeOrigin, wall, perfNow, moduleState>>

DateTimestampInSecondsCall == Call("dateTimestampInSeconds", dateTimestampInSeconds)
TimestampInSecondsCall == Call("timestampInSeconds", timestampInSeconds)
TimestampWithMsCall == Call("timestampWithMs", timestampWithMs)

\* ---- The environment ----------------------------------------------------
\* Both clocks advance by the same amount.
TimePasses ==
  /\ \E d \in {500 * t : t \in 1..MaxWall} :
       /\ wall + d \in WallReadings
       /\ perfNow + d \in NowReadings
       /\ wall' = wall + d
       /\ perfNow' = perfNow + d
  /\ UNCHANGED <<envStatic, globalPerf, nativeTimeOrigin, moduleState, prev, ret>>

\* The wall clock is adjusted (forward or backward) or runs while the performance clock is paused.
WallClockChange ==
  /\ \E w \in WallReadings : w # wall /\ wall' = w
  /\ UNCHANGED <<envStatic, globalPerf, nativeTimeOrigin, perfNow, moduleState, prev, ret>>

\* The performance clock advances on its own (it never goes back).
PerformanceClockAdvance ==
  /\ \E n \in NowReadings : n > perfNow /\ perfNow' = n
  /\ UNCHANGED <<envStatic, globalPerf, nativeTimeOrigin, wall, moduleState, prev, ret>>

\* A performance facility appears in, disappears from or changes shape in the global object.
GlobalPerformanceChange ==
  /\ \E gp \in {"absent", "noNow", "full"} : gp # globalPerf /\ globalPerf' = gp
  /\ UNCHANGED <<envStatic, nativeTimeOrigin, wall, perfNow, moduleState, prev, ret>>

\* The native performance object reports a different timeOrigin.
NativeTimeOriginChange ==
  /\ \E nto \in NativeTimeOrigins : nto # nativeTimeOrigin /\ nativeTimeOrigin' = nto
  /\ UNCHANGED <<envStatic, globalPerf, wall, perfNow, moduleState, prev, ret>>

Next ==
  \/ ModuleLoad
  \/ DateTimestampInSecondsCall
  \/ TimestampInSecondsCall
  \/ TimestampWithMsCall
  \/ TimePasses
  \/ WallClockChange
  \/ PerformanceClockAdvance
  \/ GlobalPerformanceChange
  \/ NativeTimeOriginChange

Spec == Init /\ [][Next]_vars

\* ---- Properties ---------------------------------------------------------

\* Milliseconds denoted by a seconds value (the inverse of "/ 1000").
ToMs(s) == s.whole * 1000 + s.milli

SecLeq(a, b) == a.whole < b.whole \/ (a.whole = b.whole /\ a.milli <= b.milli)

\* What each exported function returns when called in the current state.
TimestampInSecondsValue ==
  NowSeconds(timestampInSeconds, platformPerformance, nativeTimeOrigin, wall, perfNow)
DateTimestampInSecondsValue ==
  NowSeconds(dateTimestampInSeconds, platformPerformance, nativeTimeOrigin, wall, perfNow)

\* C1: after module initialization, in every environment, usingPerformanceAPI is true
\* iff timestampInSeconds is bound to (timeOrigin + now()) / 1000, and false iff it is
\* bound to the Date-based source.
C1_FlagMatchesBinding ==
  pc = "ready" =>
    /\ usingPerformanceAPI <=> timestampInSeconds = "performance"
    /\ ~usingPerformanceAPI <=> timestampInSeconds = "date"
    /\ usingPerformanceAPI =>
         TimestampInSecondsValue =
           DivBy1000(Plus(TimeOriginOf(platformPerformance, nativeTimeOrigin), perfNow))
    /\ ~usingPerformanceAPI => TimestampInSecondsValue = DivBy1000(Num(wall))

C1_Witness ==
  /\ pc = "ready" /\ isNode /\ usingPerformanceAPI
  /\ ret.fn = "timestampInSeconds" /\ ret.value.tag = "number"

\* C2: where no high-resolution clock is detected, every call of timestampInSeconds and
\* timestampWithMs returns what dateTimestampInSeconds returns for the same wall-clock
\* reading, after any sequence of wall-clock changes.
C2_FallbackEqualsDate ==
  [][(~usingPerformanceAPI /\ (TimestampInSecondsCall \/ TimestampWithMsCall))
       => ret'.value = DateTimestampInSecondsValue]_vars

C2_Witness ==
  /\ pc = "ready" /\ ~usingPerformanceAPI /\ globalPerf = "full"
  /\ prev.fn = "timestampWithMs" /\ ret.fn = "timestampInSeconds"
  /\ ToMs(ret.value) = wall /\ ToMs(prev.value) > wall

\* C3: with a high-resolution clock (server or browser path), two successive calls of
\* timestampInSeconds return non-decreasing values (the native now() never decreases),
\* even when the wall clock moves backward between the calls.
C3_Monotonic ==
  (/\ usingPerformanceAPI
   /\ prev.fn = "timestampInSeconds" /\ ret.fn = "timestampInSeconds"
   /\ prev.value.tag = "number" /\ ret.value.tag = "number")
    => SecLeq(prev.value, ret.value)

\* C4: every public timestamp function always returns a valid number, in every
\* environment, including a server handle that has now() but no timeOrigin.
C4_AlwaysNumber == ret.fn # "none" => ret.value.tag = "number"

\* C5: in a server runtime where acquiring perf_hooks throws, the probe yields
\* undefined, usingPerformanceAPI is false and timestampInSeconds is the wall-clock
\* source; the browser probe is not tried even if a global performance exists.
C5_NodeFailureFallsBack ==
  (pc = "ready" /\ isNode /\ perfHooks = "throws") =>
    /\ platformPerformance = NoPerformance
    /\ ~usingPerformanceAPI
    /\ timestampInSeconds = "date"
    /\ TimestampInSecondsValue = DateTimestampInSecondsValue

C5_Witness ==
  /\ pc = "ready" /\ isNode /\ perfHooks = "throws"
  /\ globalPerf = "full" /\ browserPerformanceTimeOrigin.tag = "number"
  /\ ret.fn = "timestampInSeconds" /\ ToMs(ret.value) = wall

\* C6: on the browser path the origin is Date.now() - performance.now() taken at
\* construction, never the native timeOrigin: right after construction
\* timestampInSeconds() is the wall clock / 1000, and a reading is the same whatever
\* the native timeOrigin is.
C6_BrowserOrigin ==
  [][(pc' = "ready" /\ ~isNode /\ usingPerformanceAPI') =>
       /\ ModuleLoad =>
            /\ platformPerformance'.timeOrigin = Num(wall - perfNow)
            /\ ToMs(TimestampInSecondsValue') = wall
       /\ platformPerformance'.timeOrigin = platformPerformance.timeOrigin \/ ModuleLoad
       /\ \A nto \in NativeTimeOrigins :
            NowSeconds(timestampInSeconds', platformPerformance', nto, wall', perfNow')
              = TimestampInSecondsValue']_vars

C6_Witness ==
  /\ pc = "ready" /\ ~isNode /\ usingPerformanceAPI
  /\ nativeTimeOrigin = Num(500) /\ platformPerformance.timeOrigin = Num(1000)
  /\ prev.fn = "none" /\ ret.fn = "timestampInSeconds" /\ ToMs(ret.value) = wall

\* C7: browserPerformanceTimeOrigin is absent when the global object has no
\* performance; otherwise the native timeOrigin when present and non-zero, else
\* timing.navigationStart when present and non-zero, else the wall-clock milliseconds;
\* whichever timestamp source is bound.
C7_Expected ==
  CASE globalPerf = "absent" -> Undefined
    [] globalPerf # "absent" /\ nativeTimeOrigin.tag = "number" /\ nativeTimeOrigin.val # 0
         -> nativeTimeOrigin
    [] globalPerf # "absent" /\ ~(nativeTimeOrigin.tag = "number" /\ nativeTimeOrigin.val # 0)
         /\ navigationStart.tag = "number" /\ navigationStart.val # 0
         -> navigationStart
    [] OTHER -> Num(wall)

C7_BrowserTimeOrigin ==
  [][ModuleLoad => browserPerformanceTimeOrigin' = C7_Expected]_vars

C7_Witness ==
  /\ pc = "ready" /\ ~isNode /\ ~usingPerformanceAPI
  /\ navigationStart = Num(1000) /\ browserPerformanceTimeOrigin = Num(1000)
  /\ wall = 0 /\ prev.fn = "none" /\ ret.fn = "none"

\* The origin that the composed formula uses in the current state.
OriginInUse == TimeOriginOf(platformPerformance, nativeTimeOrigin)

\* C8: after module initialization the source bound to timestampInSeconds, the value
\* of usingPerformanceAPI and the origin used in the composed formula never change,
\* whatever happens in the environment.
C8_FrozenAfterLoad ==
  [][pc = "ready" =>
       /\ timestampInSeconds' = timestampInSeconds
       /\ usingPerformanceAPI' = usingPerformanceAPI
       /\ OriginInUse' = OriginInUse]_vars

\* C9: dateTimestampInSeconds() returns the wall-clock reading at call time / 1000,
\* unmodified, also when the wall clock moved backward since the previous call and
\* whether or not a high-resolution clock is bound.
C9_DateUnmodified ==
  [][DateTimestampInSecondsCall =>
       ret'.value.tag = "number" /\ ToMs(ret'.value) = wall]_vars

C9_Witness ==
  /\ pc = "ready" /\ usingPerformanceAPI
  /\ prev.fn = "dateTimestampInSeconds" /\ ret.fn = "dateTimestampInSeconds"
  /\ ToMs(ret.value) = wall /\ ToMs(ret.value) < ToMs(prev.value)

\* Difference between the wall clock and what timestampInSeconds() returns, in ms.
Skew == wall - ToMs(TimestampInSecondsValue)

\* C10: on the browser path timestampInSeconds() * 1000 is the wall clock at
\* construction and stays so while both clocks advance alike; every later divergence
\* between the two clocks adds to the skew and is never corrected.
C10_SkewAccumulates ==
  [][(pc' = "ready" /\ platformPerformance'.ref = "wrapper") =>
       IF pc = "load"
       THEN Skew' = 0
       ELSE Skew' - Skew = (wall' - wall) - (perfNow' - perfNow)]_vars

C10_Witness ==
  /\ pc = "ready" /\ platformPerformance.ref = "wrapper"
  /\ prev.fn = "dateTimestampInSeconds" /\ ret.fn = "timestampInSeconds"
  /\ ToMs(prev.value) = wall
  /\ ToMs(prev.value) - ToMs(ret.value) >= 1000

====
